---------------------------- MODULE Spec2Model ----------------------------
(***************************************************************************)
(* A model of the tile rack of src/src/main.rs: a row of letter tiles that *)
(* the pointer drags, reorders and drops, with the other tiles animated    *)
(* towards their slots on every update.                                    *)
(*                                                                         *)
(* Coordinates are f32 in the source.  An f32 is held here as its IEEE-754 *)
(* binary32 bit pattern read as a sign-magnitude integer: a value v >= 0   *)
(* is the integer v.to_bits(), a value v < 0 is -((-v).to_bits()).  The    *)
(* encoding is monotonic, so the integer order and equality ARE the f32    *)
(* order and equality, and 195.0 is 1128464384.  Arithmetic rounds to      *)
(* nearest, ties to even, as the hardware does.  Zero, and the normal      *)
(* numbers, are covered; the model's inputs keep every value far from the  *)
(* subnormal and infinite ranges.                                          *)
(***************************************************************************)
EXTENDS Integers, Sequences, FiniteSets, TLC

-----------------------------------------------------------------------------
(* f32 arithmetic *)

\* 2^23: the hidden bit of a normal binary32 significand.
Hidden == 2^23

\* Number of bits of n, for 0 <= n < 2^31.
RECURSIVE BitLenFrom(_, _)
BitLenFrom(n, k) == IF n < 2^k THEN k ELSE BitLenFrom(n, k + 1)

BitLen(n) ==
    IF n < 2^16
    THEN IF n < 2^8 THEN BitLenFrom(n, 0) ELSE BitLenFrom(n, 9)
    ELSE IF n < 2^24 THEN BitLenFrom(n, 17)
         ELSE IF n < 2^28 THEN BitLenFrom(n, 25) ELSE
              IF n < 2^29 THEN 29 ELSE IF n < 2^30 THEN 30 ELSE 31

FAbs(a) == IF a < 0 THEN -a ELSE a
FSign(a) == IF a < 0 THEN -1 ELSE 1
\* The value of a nonzero normal a is FSign(a) * FMant(a) * 2^FExp(a).
FMant(a) == Hidden + (FAbs(a) % Hidden)
FExp(a) == (FAbs(a) \div Hidden) - 150

\* The f32 of sign * q * 2^e, for a normalised q (2^23 <= q < 2^24).
FPack(sign, q, e) == sign * ((e + 150) * Hidden + (q - Hidden))

\* The f32 nearest to sign * M * 2^e (ties to even), for 0 <= M < 2^31.  When
\* M was cut short, its lowest bit is the sticky bit and at least two real
\* bits lie between it and the 24 that are kept.
FRound(sign, M, e) ==
    IF M = 0 THEN 0
    ELSE LET n == BitLen(M)
         IN  IF n <= 24
             THEN FPack(sign, M * 2^(24 - n), e - (24 - n))
             ELSE LET sh   == n - 24
                      q    == M \div 2^sh
                      r    == M % 2^sh
                      half == 2^(sh - 1)
                      up   == r > half \/ (r = half /\ q % 2 = 1)
                      q1   == IF up THEN q + 1 ELSE q
                  IN  IF q1 = 2 * Hidden
                      THEN FPack(sign, Hidden, e + sh + 1)
                      ELSE FPack(sign, q1, e + sh)

\* n as f32, for an integer |n| < 2^31 (exact when |n| < 2^24).
FromInt(n) == FRound(FSign(n), FAbs(n), 0)

FNeg(a) == -a

\* a + b in f32.  The larger operand gets three extra low bits; the smaller is
\* aligned to it, the bits shifted out collapsing into a sticky lowest bit.
FAdd(a, b) ==
    IF a = 0 THEN b
    ELSE IF b = 0 THEN a
    ELSE LET big == IF FAbs(a) >= FAbs(b) THEN a ELSE b
             sml == IF FAbs(a) >= FAbs(b) THEN b ELSE a
             d   == FExp(big) - FExp(sml)
         IN  IF d > 26 THEN big
             ELSE LET A  == FMant(big) * 8
                      s8 == FMant(sml) * 8
                      b0 == s8 \div 2^d
                      B  == IF s8 % 2^d # 0 /\ b0 % 2 = 0 THEN b0 + 1 ELSE b0
                      S  == IF FSign(big) = FSign(sml) THEN A + B ELSE A - B
                  IN  FRound(FSign(big), S, FExp(big) - 3)

FSub(a, b) == FAdd(a, FNeg(b))

\* a / k in f32, for an integer-valued divisor 16 <= k <= 128 (the source
\* divides only by 60.0 and by 100.0).
FDivInt(a, k) ==
    IF a = 0 THEN 0
    ELSE LET n0 == FMant(a) * 128
             q0 == n0 \div k
             r0 == n0 % k
             q1 == q0 * 4 + ((r0 * 4) \div k)
             r1 == (r0 * 4) % k
             q2 == q1 * 2 + (IF r1 # 0 THEN 1 ELSE 0)
         IN  FRound(FSign(a), q2, FExp(a) - 10)

\* `a as usize`: towards zero, anything negative saturating to 0.
FToUsize(a) ==
    IF a <= 0 \/ FAbs(a) < 127 * Hidden THEN 0
    ELSE IF FExp(a) >= 0 THEN FMant(a) * 2^FExp(a)
         ELSE FMant(a) \div 2^(-FExp(a))

-----------------------------------------------------------------------------
(* Constants of the program *)

TILE_WIDTH == 50
TILE_HEIGHT == 50
TILE_SPACING == 10
ANIMATION_STEPS == 100

\* TILE_WIDTH + TILE_SPACING, the distance between two slots; an integer, so
\* that index * Pitch is the exact product the source computes in f32.
Pitch == TILE_WIDTH + TILE_SPACING

\* Option<f32>: None is the empty sequence, Some(v) is <<v>>.
None == << >>
Some(v) == << v >>

\* A letter is a char: a Unicode scalar value, here its code point.  The word
\* main() builds the rack from, "AEINRST", and where it puts it in ggez's
\* default 800 x 600 window: x = 800/2 - 410/2, y = 600/2 - 50/2.
Word == << 65, 69, 73, 78, 82, 83, 84 >>
RackX == FromInt(195)
RackY == FromInt(275)

-----------------------------------------------------------------------------
(* Tile and TileRack *)

Tile(x, y, letter) ==
    [ x |-> x, y |-> y, letter |-> letter, dragging |-> FALSE,
      relative_x_click |-> None, relative_y_click |-> None,
      animation_progress |-> 0,
      x_animation_step |-> None, y_animation_step |-> None ]

\* The resting x of slot index (0-based, as in the source).
SlotX(x, index) == FAdd(x, FromInt(index * Pitch))

\* The bytes of a char in a &str (UTF-8): one up to U+007F, two up to U+07FF,
\* three up to U+FFFF, four above.
Utf8Len(letter) ==
    IF letter < 128 THEN 1
    ELSE IF letter < 2048 THEN 2
    ELSE IF letter < 65536 THEN 3
    ELSE 4

\* str::len: the length of the string in bytes, not in chars.
RECURSIVE StrLen(_)
StrLen(letters) ==
    IF letters = << >> THEN 0
    ELSE Utf8Len(Head(letters)) + StrLen(Tail(letters))

\* TileRack::new.  tiles[i + 1] is the source's tiles[i].  There is one tile
\* for each char of letters, and size is the number of its bytes: size is
\* tiles.len() only when every letter is ASCII.
NewRack(x, y, letters) ==
    [ x |-> x, y |-> y,
      tiles |-> [ i \in 1..Len(letters) |-> Tile(SlotX(x, i - 1), y, letters[i]) ],
      size |-> StrLen(letters) ]

\* The slots (0-based) holding a dragging tile.
DraggingSlots(r) == { i \in 0..(Len(r.tiles) - 1) : r.tiles[i + 1].dragging }

Min(S) == CHOOSE m \in S : \A n \in S : m <= n

\* get_dragging_tile / get_dragging_tile_mut: the slot of the first dragging
\* tile, -1 for None.
GetDraggingIndex(r) ==
    IF DraggingSlots(r) = {} THEN -1 ELSE Min(DraggingSlots(r))

\* get_new_tile_index with the half tile subtracted instead of added.
GetNewTileIndexMinusHalf(r, x) ==
    LET tile_position ==
            FDivInt(FSub(FSub(x, r.x), FromInt(TILE_WIDTH \div 2)), Pitch)
    IN  IF tile_position < 0 THEN 0
        ELSE IF tile_position > FromInt(r.size - 1) THEN r.size - 1
        ELSE FToUsize(tile_position)

\* get_new_tile_index without the clamp to the last slot.
GetNewTileIndexNoClamp(r, x) ==
    LET tile_position ==
            FDivInt(FAdd(FSub(x, r.x), FromInt(TILE_WIDTH \div 2)), Pitch)
    IN  IF tile_position < 0 THEN 0 ELSE FToUsize(tile_position)

\* get_new_tile_index rounding to the nearest slot: half a pitch added
\* instead of half a tile.
GetNewTileIndexHalfPitch(r, x) ==
    LET tile_position ==
            FDivInt(FAdd(FSub(x, r.x), FromInt(Pitch \div 2)), Pitch)
    IN  IF tile_position < 0 THEN 0
        ELSE IF tile_position > FromInt(r.size - 1) THEN r.size - 1
        ELSE FToUsize(tile_position)

\* get_new_tile_index
GetNewTileIndex(r, x) ==
    LET tile_position ==
            FDivInt(FAdd(FSub(x, r.x), FromInt(TILE_WIDTH \div 2)), Pitch)
    IN  IF tile_position < 0 THEN 0
        ELSE IF tile_position > FromInt(r.size - 1) THEN r.size - 1
        ELSE FToUsize(tile_position)

\* new_tile_x_positions with < for <= at the slot the dragged tile would get:
\* the tile in that slot stays where it is.
NewTileXStrict(r, index, dragging_initial_index, new_index) ==
    LET tile_x == SlotX(r.x, index)
    IN  IF dragging_initial_index = -1 THEN tile_x
        ELSE IF new_index < index /\ index <= dragging_initial_index
             THEN FAdd(tile_x, FromInt(Pitch))
             ELSE IF dragging_initial_index <= index /\ index < new_index
                  THEN FSub(tile_x, FromInt(Pitch))
                  ELSE tile_x

\* The x that update() wants the tile of slot index at: the slot's resting x,
\* moved one slot aside while the dragged tile would pass over it.  The
\* dragging tile's slot (-1 for None) and the slot it would get if it were
\* dropped now are the same for every index; update() hands them in.
NewTileX(r, index, dragging_initial_index, new_index) ==
    LET tile_x == SlotX(r.x, index)
    IN  IF dragging_initial_index = -1 THEN tile_x
        ELSE IF new_index <= index /\ index <= dragging_initial_index
             THEN FAdd(tile_x, FromInt(Pitch))
             ELSE IF dragging_initial_index <= index /\ index <= new_index
                  THEN FSub(tile_x, FromInt(Pitch))
                  ELSE tile_x

\* The slot the dragging tile would get if it were dropped now, -1 without one.
PreviewIndex(r) ==
    IF GetDraggingIndex(r) = -1 THEN -1
    ELSE GetNewTileIndex(r, r.tiles[GetDraggingIndex(r) + 1].x)

\* The animation step with the step vector computed anew on every update.
StepTileRecompute(tile, new_x, new_y, steps) ==
    LET x_animation_step == FDivInt(FSub(new_x, tile.x), steps)
        y_animation_step == FDivInt(FSub(new_y, tile.y), steps)
    IN  [ tile EXCEPT !.x_animation_step = Some(x_animation_step),
                      !.y_animation_step = Some(y_animation_step),
                      !.animation_progress = @ + 1,
                      !.x = FAdd(tile.x, x_animation_step),
                      !.y = FAdd(tile.y, y_animation_step) ]

\* One step of the animation of a tile that is not at (new_x, new_y).
StepTile(tile, new_x, new_y, steps) ==
    LET x_animation_step ==
            IF tile.x_animation_step # None
            THEN tile.x_animation_step[1]
            ELSE FDivInt(FSub(new_x, tile.x), steps)
        y_animation_step ==
            IF tile.y_animation_step # None
            THEN tile.y_animation_step[1]
            ELSE FDivInt(FSub(new_y, tile.y), steps)
    IN  [ tile EXCEPT !.x_animation_step = Some(x_animation_step),
                      !.y_animation_step = Some(y_animation_step),
                      !.animation_progress = @ + 1,
                      !.x = FAdd(tile.x, x_animation_step),
                      !.y = FAdd(tile.y, y_animation_step) ]

\* The end of an animation without the reset of animation_progress.
SnapTileKeepProgress(tile, new_x, new_y) ==
    [ tile EXCEPT !.x_animation_step = None,
                  !.y_animation_step = None,
                  !.x = new_x, !.y = new_y ]

\* The end of an animation: the tile is put at (new_x, new_y).
SnapTile(tile, new_x, new_y) ==
    [ tile EXCEPT !.x_animation_step = None,
                  !.y_animation_step = None,
                  !.animation_progress = 0,
                  !.x = new_x, !.y = new_y ]

\* The loop body with && for ||: the tile snaps only when it is at its target
\* and its animation has run out.
UpdateTileAndForOr(tile, new_x, new_y, steps) ==
    IF tile.dragging THEN tile
    ELSE IF steps # 0
    THEN IF (tile.x = new_x /\ tile.y = new_y) /\ tile.animation_progress >= steps
         THEN SnapTile(tile, new_x, new_y)
         ELSE StepTile(tile, new_x, new_y, steps)
    ELSE [ tile EXCEPT !.x = new_x, !.y = new_y ]

\* The loop body with > for >=: the animation runs one step too long.
UpdateTileLateSnap(tile, new_x, new_y, steps) ==
    IF tile.dragging THEN tile
    ELSE IF steps # 0
    THEN IF (tile.x = new_x /\ tile.y = new_y) \/ tile.animation_progress > steps
         THEN SnapTile(tile, new_x, new_y)
         ELSE StepTile(tile, new_x, new_y, steps)
    ELSE [ tile EXCEPT !.x = new_x, !.y = new_y ]

\* The loop body whose branch without animation sets x and forgets y.
UpdateTileForgetY(tile, new_x, new_y, steps) ==
    IF tile.dragging THEN tile
    ELSE IF steps # 0
    THEN IF (tile.x = new_x /\ tile.y = new_y) \/ tile.animation_progress >= steps
         THEN SnapTile(tile, new_x, new_y)
         ELSE StepTile(tile, new_x, new_y, steps)
    ELSE [ tile EXCEPT !.x = new_x ]

\* The body of update()'s loop for one tile.
UpdateTile(tile, new_x, new_y, steps) ==
    IF tile.dragging THEN tile
    ELSE IF steps # 0
    THEN IF (tile.x = new_x /\ tile.y = new_y) \/ tile.animation_progress >= steps
         THEN SnapTile(tile, new_x, new_y)
         ELSE StepTile(tile, new_x, new_y, steps)
    ELSE [ tile EXCEPT !.x = new_x, !.y = new_y ]

\* TileRack::update with ANIMATION_STEPS = steps.
RackUpdate(r, steps) ==
    LET dragging_initial_index == GetDraggingIndex(r)
        new_index == PreviewIndex(r)
    IN  [ r EXCEPT !.tiles =
          [ i \in 1..Len(r.tiles) |->
              UpdateTile(r.tiles[i],
                         NewTileX(r, i - 1, dragging_initial_index, new_index),
                         r.y, steps) ] ]

\* ggez's Rect::contains on the tile's dimensions(): the edges are inside.
TileContains(tile, x, y) ==
    /\ x >= tile.x
    /\ x <= FAdd(tile.x, FromInt(TILE_WIDTH))
    /\ y <= FAdd(tile.y, FromInt(TILE_HEIGHT))
    /\ y >= tile.y

\* The slot mouse_button_down_event looks at: the column of x.
ClickSlot(r, x) == FToUsize(FDivInt(FSub(x, r.x), Pitch))

\* mouse_button_down_event testing every tile instead of the one of the
\* column of x: every tile under the pointer begins to drag.
RackMouseDownEveryTile(r, button, x, y) ==
    IF button = "Left"
    THEN [ r EXCEPT !.tiles =
           [ i \in 1..Len(r.tiles) |->
               IF TileContains(r.tiles[i], x, y)
               THEN [ r.tiles[i] EXCEPT
                        !.dragging = TRUE,
                        !.relative_x_click = Some(FSub(x, r.tiles[i].x)),
                        !.relative_y_click = Some(FSub(y, r.tiles[i].y)) ]
               ELSE r.tiles[i] ] ]
    ELSE r

\* mouse_button_down_event panics: the column of x passes the test against
\* size and self.rack.tiles[tile_position] is out of bounds.
MouseDownPanics(r, button, x) ==
    /\ button = "Left"
    /\ ClickSlot(r, x) <= r.size - 1
    /\ ClickSlot(r, x) >= Len(r.tiles)

\* State::mouse_button_down_event.  Where it panics nothing is left of the
\* State; the value here is the rack the handler found.
RackMouseDown(r, button, x, y) ==
    IF MouseDownPanics(r, button, x) THEN r
    ELSE IF button = "Left"
    THEN LET tile_position == ClickSlot(r, x)
         IN  IF tile_position <= r.size - 1
                /\ TileContains(r.tiles[tile_position + 1], x, y)
             THEN LET tile == r.tiles[tile_position + 1]
                  IN  [ r EXCEPT !.tiles[tile_position + 1] =
                        [ tile EXCEPT
                            !.dragging = TRUE,
                            !.relative_x_click = Some(FSub(x, tile.x)),
                            !.relative_y_click = Some(FSub(y, tile.y)) ] ]
             ELSE r
    ELSE r

\* mouse_motion_event without the test of the dragging flag: every tile that
\* has ever been grabbed follows the pointer.
RackMouseMotionAnyOffset(r, x, y) ==
    [ r EXCEPT !.tiles =
        [ i \in 1..Len(r.tiles) |->
            IF r.tiles[i].relative_x_click # None
            THEN [ r.tiles[i] EXCEPT
                     !.x = FSub(x, r.tiles[i].relative_x_click[1]),
                     !.y = FSub(y, r.tiles[i].relative_y_click[1]) ]
            ELSE r.tiles[i] ] ]

\* State::mouse_motion_event
RackMouseMotion(r, x, y) ==
    [ r EXCEPT !.tiles =
        [ i \in 1..Len(r.tiles) |->
            IF r.tiles[i].dragging
            THEN [ r.tiles[i] EXCEPT
                     !.x = FSub(x, r.tiles[i].relative_x_click[1]),
                     !.y = FSub(y, r.tiles[i].relative_y_click[1]) ]
            ELSE r.tiles[i] ] ]

\* Vec::remove(index) then Vec::insert(new_index, tile), 0-based.
MoveTile(tiles, index, new_index) ==
    LET tile == tiles[index + 1]
        rest == [ i \in 1..(Len(tiles) - 1) |->
                    IF i <= index THEN tiles[i] ELSE tiles[i + 1] ]
    IN  [ i \in 1..Len(tiles) |->
            IF i <= new_index THEN rest[i]
            ELSE IF i = new_index + 1 THEN tile
            ELSE rest[i - 1] ]

\* mouse_button_up_event panics: after tiles.remove(index) the vector has
\* tiles.len() - 1 elements, and tiles.insert(new_index, ..) needs
\* new_index <= tiles.len() - 1.
MouseUpPanics(r, button) ==
    /\ button = "Left"
    /\ GetDraggingIndex(r) # -1
    /\ PreviewIndex(r) > Len(r.tiles) - 1

\* State::mouse_button_up_event.  Where it panics nothing is left of the
\* State; the value here is the rack the handler found.
RackMouseUp(r, button) ==
    IF MouseUpPanics(r, button) THEN r
    ELSE IF button = "Left" /\ GetDraggingIndex(r) # -1
    THEN LET index == GetDraggingIndex(r)
             tile_x == r.tiles[index + 1].x
             cleared == [ r EXCEPT !.tiles[index + 1].dragging = FALSE ]
             new_index == GetNewTileIndex(cleared, tile_x)
         IN  [ cleared EXCEPT !.tiles = MoveTile(cleared.tiles, index, new_index) ]
    ELSE r

\* TileRack::draw: the tiles (1-based positions in tiles) in the order they
\* are drawn.  sorted_by_key is a stable sort and false < true: the tiles that
\* are not dragging in rack order, then the dragging ones in rack order.
DrawOrder(r) ==
    LET positions == [ i \in 1..Len(r.tiles) |-> i ]
        IsDragging(i) == r.tiles[i].dragging
        IsStill(i) == ~r.tiles[i].dragging
    IN  SelectSeq(positions, IsStill) \o SelectSeq(positions, IsDragging)

-----------------------------------------------------------------------------
(* The state, and the bounds of the exploration *)

VARIABLES
    rack,             \* the TileRack of State
    letters,          \* the letters the rack was built from
    animation_steps,  \* ANIMATION_STEPS of the build
    events,           \* pointer events that changed the rack so far
    idle,             \* updates since the last such event, up to IdleCap
    last,             \* the last pointer event that changed the rack
    probe,            \* the last two calls of get_new_tile_index (SpecIndex)
    panicked          \* a handler has panicked: the program is gone

vars == << rack, letters, animation_steps, events, idle, last, probe, panicked >>

\* The longest rack built, the number of pointer events of a run, and the
\* number of updates the pointer may wait for before it acts in mid-animation.
MaxLen == 7
MaxEvents == 4
Stride == 40

\* After ANIMATION_STEPS + 1 updates without a pointer event every animation
\* that was running has ended; idle counts no further.
IdleCap == ANIMATION_STEPS + 2

\* Racks of 1 and 2 tiles and the longest one; main() builds Word, and a
\* longer rack repeats its letters.  And racks with a letter that is not
\* ASCII, of two, three and four bytes: "AÉI" (U+00C9, three tiles and four
\* bytes), "日" (U+65E5, one tile and three bytes) and the one emoji U+1F600
\* (one tile and four bytes).
Letter(i) == Word[((i - 1) % Len(Word)) + 1]
NonAsciiWords == { << 65, 201, 73 >>, << 26085 >>, << 128512 >> }
InitialWords ==
    { [ i \in 1..n |-> Letter(i) ] : n \in { 1, 2, MaxLen } }
    \cup NonAsciiWords

\* Pointer positions: inside the tile resting in slot 0, in the spacing right
\* of it, inside the tile resting in slot 3, far left of the rack and far
\* right of it; in the row of the rack, and below it.
PointerXs == { FAdd(RackX, FromInt(d)) : d \in { 20, 55, 190, -150, 600 } }
PointerYs == { FAdd(RackY, FromInt(d)) : d \in { 10, 70 } }
Buttons == { "Left", "Right" }

\* No tile has an animation in progress.
NoAnimation(r) ==
    \A i \in 1..Len(r.tiles) :
        /\ r.tiles[i].animation_progress = 0
        /\ r.tiles[i].x_animation_step = None
        /\ r.tiles[i].y_animation_step = None

\* What is remembered of a pointer event: the handler, the slot it took the
\* tile from and the slot it put it in (-1: none), whether a motion has moved
\* a tile since the pointer went down, and whether the event found every tile
\* without an animation in progress.
NoEvent ==
    [ op |-> "none", old_index |-> -1, new_index |-> -1, moved |-> FALSE,
      from_rest |-> TRUE ]
NoProbe == [ x |-> 0, index |-> 0, prev_x |-> 0, prev_index |-> 0 ]

\* One call of get_new_tile_index, and the one before it.
ProbeOf(r, x, before) ==
    [ x |-> x, index |-> GetNewTileIndex(r, x),
      prev_x |-> before.x, prev_index |-> before.index ]

\* The value of an f32 in units of 2^-16, for the f32 that have one and are
\* below 2^15: the integers, and everything from 128.0 up.
Fix16(a) ==
    IF a = 0 THEN 0
    ELSE IF FExp(a) + 16 >= 0
         THEN FSign(a) * FMant(a) * 2^(FExp(a) + 16)
         ELSE FSign(a) * (FMant(a) \div 2^(-(FExp(a) + 16)))

\* The x where the index changes from i - 1 to i.
Boundary(i) == FAdd(RackX, FromInt(i * Pitch - (TILE_WIDTH \div 2)))

\* The x asked of get_new_tile_index: every ProbeStep pixels from a slot left
\* of the rack to a slot right of it (the boundaries are among them), the f32
\* just below and just above each boundary, and two far away.
ProbeStep == 15
ProbeXs ==
    { FAdd(Boundary(-1), FromInt(ProbeStep * k)) :
        k \in 0..(((MaxLen + 2) * Pitch) \div ProbeStep) }
    \cup { Boundary(i) + d : i \in 0..MaxLen, d \in { -1, 1 } }
    \cup { FromInt(-20000), FromInt(20000) }

Init ==
    /\ letters \in InitialWords
    /\ rack = NewRack(RackX, RackY, letters)
    /\ animation_steps = ANIMATION_STEPS
    /\ events = 0
    /\ idle = 0
    /\ last = NoEvent
    /\ probe = NoProbe
    /\ panicked = FALSE

\* The pointer acts at once, Stride updates after its last event, or when the
\* rack has come to rest.
PointerMayAct ==
    /\ ~panicked
    /\ events < MaxEvents
    /\ idle \in { 0, Stride, IdleCap }

\* A pointer event whose handler panics ends the program: nothing happens
\* after it.  A pointer event that leaves the rack as it is leaves the whole
\* state.
Deliver(new_rack, new_last, panics) ==
    /\ panicked' = panics
    /\ rack' = new_rack
    /\ IF new_rack = rack /\ ~panics
       THEN UNCHANGED << events, idle, last >>
       ELSE /\ events' = events + 1
            /\ idle' = 0
            /\ last' = new_last
    /\ UNCHANGED << letters, animation_steps, probe >>

MouseDown ==
    /\ PointerMayAct
    /\ \E button \in Buttons, x \in PointerXs, y \in PointerYs :
         Deliver(RackMouseDown(rack, button, x, y),
                 [ op |-> "down", old_index |-> ClickSlot(rack, x),
                   new_index |-> -1, moved |-> FALSE,
                   from_rest |-> NoAnimation(rack) ],
                 MouseDownPanics(rack, button, x))

MouseMotion ==
    /\ PointerMayAct
    /\ \E x \in PointerXs, y \in PointerYs :
         Deliver(RackMouseMotion(rack, x, y),
                 [ last EXCEPT !.op = "motion", !.moved = TRUE,
                               !.from_rest = NoAnimation(rack) ],
                 FALSE)

MouseUp ==
    /\ PointerMayAct
    /\ \E button \in Buttons :
         Deliver(RackMouseUp(rack, button),
                 [ op |-> "up", old_index |-> GetDraggingIndex(rack),
                   new_index |-> PreviewIndex(rack),
                   moved |-> last.moved,
                   from_rest |-> NoAnimation(rack) ],
                 MouseUpPanics(rack, button))

\* One pass of the loop of State::update.  A run ends with its last pointer
\* event.
Update ==
    /\ ~panicked
    /\ events < MaxEvents
    /\ rack' = RackUpdate(rack, animation_steps)
    /\ idle' = IF idle < IdleCap THEN idle + 1 ELSE idle
    /\ UNCHANGED << letters, animation_steps, events, last, probe, panicked >>

Next == MouseDown \/ MouseMotion \/ MouseUp \/ Update

Spec == Init /\ [][Next]_vars

\* The runs that respect the precondition of begin_drag: the pointer goes
\* down only while no tile is dragging.
MouseDownFree ==
    /\ DraggingSlots(rack) = {}
    /\ MouseDown

NextPre == MouseDownFree \/ MouseMotion \/ MouseUp \/ Update

SpecPre == Init /\ [][NextPre]_vars

\* The build with ANIMATION_STEPS = 0: update takes the branch without
\* animation.
InitNoAnimation ==
    /\ letters \in InitialWords
    /\ rack = NewRack(RackX, RackY, letters)
    /\ animation_steps = 0
    /\ events = 0
    /\ idle = 0
    /\ last = NoEvent
    /\ probe = NoProbe
    /\ panicked = FALSE

SpecNoAnimation == InitNoAnimation /\ [][Next]_vars

\* The runs in which the pointer takes a tile to the left edge of the window
\* and grabs it again on its way back: window x of 21, 40 and 100, and the
\* inside of the tile resting in slot 0.  The pointer acts at once, one update
\* after its last event, or Stride updates after it.
EdgeXs == { FromInt(21), FromInt(40), FromInt(100), FAdd(RackX, FromInt(20)) }

EdgeMayAct ==
    /\ ~panicked
    /\ events < MaxEvents
    /\ idle \in { 0, 1, Stride }

EdgeDown ==
    /\ EdgeMayAct
    /\ \E x \in EdgeXs, y \in PointerYs :
         Deliver(RackMouseDown(rack, "Left", x, y),
                 [ op |-> "down", old_index |-> ClickSlot(rack, x),
                   new_index |-> -1, moved |-> FALSE,
                   from_rest |-> NoAnimation(rack) ],
                 MouseDownPanics(rack, "Left", x))

EdgeMotion ==
    /\ EdgeMayAct
    /\ \E x \in EdgeXs, y \in PointerYs :
         Deliver(RackMouseMotion(rack, x, y),
                 [ last EXCEPT !.op = "motion", !.moved = TRUE,
                               !.from_rest = NoAnimation(rack) ],
                 FALSE)

EdgeUp ==
    /\ EdgeMayAct
    /\ Deliver(RackMouseUp(rack, "Left"),
               [ op |-> "up", old_index |-> GetDraggingIndex(rack),
                 new_index |-> PreviewIndex(rack),
                 moved |-> last.moved,
                 from_rest |-> NoAnimation(rack) ],
               MouseUpPanics(rack, "Left"))

NextEdge == EdgeDown \/ EdgeMotion \/ EdgeUp \/ Update

SpecEdge == Init /\ [][NextEdge]_vars

\* get_new_tile_index alone, called again and again on a rack at rest; the
\* first two calls ask for the slot of the rack's own x.
Probe ==
    /\ \E x \in ProbeXs : probe' = ProbeOf(rack, x, probe)
    /\ UNCHANGED << rack, letters, animation_steps, events, idle, last,
                    panicked >>

InitIndex ==
    /\ letters \in InitialWords
    /\ rack = NewRack(RackX, RackY, letters)
    /\ animation_steps = ANIMATION_STEPS
    /\ events = 0
    /\ idle = 0
    /\ last = NoEvent
    /\ probe = ProbeOf(rack, RackX, ProbeOf(rack, RackX, NoProbe))
    /\ panicked = FALSE

SpecIndex == InitIndex /\ [][Probe]_vars

-----------------------------------------------------------------------------
(* Definitions the claims are stated with *)

LettersOf(tiles) == [ i \in 1..Len(tiles) |-> tiles[i].letter ]

Count(seq, c) == Cardinality({ i \in 1..Len(seq) : seq[i] = c })

IsPermutation(a, b) ==
    /\ Len(a) = Len(b)
    /\ \A i \in 1..Len(a) : Count(a, a[i]) = Count(b, a[i])

\* seq without its element of 0-based index i.
RemoveAt(seq, i) ==
    [ j \in 1..(Len(seq) - 1) |-> IF j <= i THEN seq[j] ELSE seq[j + 1] ]

\* A step in which the pointer event named op changed the rack.
Delivered(op) == events' = events + 1 /\ last'.op = op

\* The pointer went down on a tile that has not been moved since.
UnmovedDrag == last.op = "down" /\ DraggingSlots(rack) # {}

\* The centre of the tile at x lies in the column of slot i: the pitch-wide
\* strip that begins at the slot's resting x.  The first column reaches to the
\* far left and the last to the far right.  Exact, in units of 2^-16.
CentreOffset16(r, x) ==
    Fix16(x) - Fix16(r.x) + (TILE_WIDTH \div 2) * 2^16

CentreColumn(r, x) ==
    IF CentreOffset16(r, x) < 0 THEN 0
    ELSE IF CentreOffset16(r, x) \div (Pitch * 2^16) > r.size - 1 THEN r.size - 1
    ELSE CentreOffset16(r, x) \div (Pitch * 2^16)

-----------------------------------------------------------------------------
(* The claims *)

\* C1: after any sequence of pointer-down, pointer-move, pointer-up and update
\* the rack holds size tiles, and their letters are a permutation of the
\* letters it was built from.
C1_Permutation ==
    /\ Len(rack.tiles) = rack.size
    /\ IsPermutation(LettersOf(rack.tiles), letters)

\* C2: when the pointer goes down only while no tile is dragging, at most one
\* tile is dragging in every reachable state.
C2_AtMostOneDragging == Cardinality(DraggingSlots(rack)) <= 1

\* A second drag, begun after a first one ended, is in progress.
C2_Witness ==
    /\ Cardinality(DraggingSlots(rack)) = 1
    /\ last.op = "down"
    /\ events >= 3

\* C3, as claimed: whenever a drag has begun with no tile dragging and no
\* motion has moved the tile, the drop puts the tile back in the slot it was
\* taken from, and the order of the tiles stays.
C3_RoundTripAnywhere ==
    UnmovedDrag =>
        /\ PreviewIndex(rack) = GetDraggingIndex(rack)
        /\ LettersOf(RackMouseUp(rack, "Left").tiles) = LettersOf(rack.tiles)

\* C3, amended: the same, for a tile grabbed where its centre lies in the
\* column of its slot (a tile resting in its slot is such a tile); the drop
\* does not panic.
C3_RoundTripInColumn ==
    (/\ UnmovedDrag
     /\ CentreColumn(rack, rack.tiles[GetDraggingIndex(rack) + 1].x)
            = GetDraggingIndex(rack))
    =>  /\ ~MouseUpPanics(rack, "Left")
        /\ PreviewIndex(rack) = GetDraggingIndex(rack)
        /\ LettersOf(RackMouseUp(rack, "Left").tiles) = LettersOf(rack.tiles)

\* A tile was grabbed and dropped without a motion in between, and is back in
\* its slot.
C3_Witness ==
    /\ last.op = "up"
    /\ ~last.moved
    /\ last.old_index = 3
    /\ last.new_index = 3
    /\ LettersOf(rack.tiles) = letters

\* C4: a drop takes the first dragging tile out of its slot old_index and puts
\* it in the slot new_index that get_new_tile_index gives for its x, with the
\* dragging flag cleared and nothing else of it changed; the other tiles keep
\* their order and are not changed; the drop does not panic.  With no tile
\* dragging a drop changes nothing.
C4_SingleMove ==
    [][ /\ Delivered("up") =>
            LET old_index == GetDraggingIndex(rack)
                new_index == GetNewTileIndex(rack, rack.tiles[old_index + 1].x)
            IN  /\ ~panicked'
                /\ old_index # -1
                /\ last'.old_index = old_index
                /\ last'.new_index = new_index
                /\ rack'.tiles[new_index + 1] =
                       [ rack.tiles[old_index + 1] EXCEPT !.dragging = FALSE ]
                /\ RemoveAt(rack'.tiles, new_index) = RemoveAt(rack.tiles, old_index)
        /\ DraggingSlots(rack) = {} => RackMouseUp(rack, "Left") = rack
      ]_vars

\* C5: get_new_tile_index is monotonic non-decreasing in x, and for every x,
\* far left and far right of the rack included, gives an index from 0 to
\* size - 1.
C5_MonotonicInRange ==
    /\ probe.prev_x <= probe.x => probe.prev_index <= probe.index
    /\ probe.index \in 0..(rack.size - 1)
    /\ probe.prev_index \in 0..(rack.size - 1)

\* The longest rack, asked far to its left and then far to its right: the
\* first slot, then the last.
C5_Witness ==
    /\ rack.size = MaxLen
    /\ probe.prev_x = FromInt(-20000)
    /\ probe.prev_index = 0
    /\ probe.x = FromInt(20000)
    /\ probe.index = rack.size - 1

\* The slots whose centre, origin.x + i * pitch + tile_width / 2, is closest
\* to x.  Exact, in units of 2^-16.
Dist16(r, x, i) ==
    LET d == Fix16(x) - Fix16(r.x) - (i * Pitch + (TILE_WIDTH \div 2)) * 2^16
    IN  IF d < 0 THEN -d ELSE d

ClosestCentres(r, x) ==
    { i \in 0..(r.size - 1) :
        \A j \in 0..(r.size - 1) : Dist16(r, x, i) <= Dist16(r, x, j) }

\* C6, as claimed: get_new_tile_index(x) is a slot whose centre is closest to
\* x.
C6_ClosestCentre == probe.index \in ClosestCentres(rack, probe.x)

\* C6, amended: get_new_tile_index(x) is the slot in whose column the point
\* x + tile_width / 2 lies, the centre of a tile whose left edge is x.
C6_CentreColumn == probe.index = CentreColumn(rack, probe.x)

\* x just below the boundary between the columns of slot 0 and slot 1, then
\* just above it.
C6_Witness ==
    /\ rack.size > 1
    /\ probe.prev_x = Boundary(1) - 1
    /\ probe.prev_index = 0
    /\ probe.x = Boundary(1) + 1
    /\ probe.index = 1

\* Every tile is in its slot with no animation in progress.
AtRest(r) ==
    /\ NoAnimation(r)
    /\ \A i \in 1..Len(r.tiles) :
           r.tiles[i].x = SlotX(r.x, i - 1) /\ r.tiles[i].y = r.y

\* C7: when every tile is in its slot with no animation in progress, an update
\* changes no position and no animation state (and so do any number of them).
C7_UpdateAtRestIsIdentity ==
    AtRest(rack) => RackUpdate(rack, animation_steps) = rack

\* The rack has come to rest in a new order, and updates have run on it.
C7_Witness ==
    /\ AtRest(rack)
    /\ idle = IdleCap
    /\ last.op = "up"
    /\ LettersOf(rack.tiles) # letters

\* The target of the tile in slot i (0-based) on the next update.
TargetX(r, i) == NewTileX(r, i, GetDraggingIndex(r), PreviewIndex(r))

OnTarget(r, i) ==
    r.tiles[i + 1].x = TargetX(r, i) /\ r.tiles[i + 1].y = r.y

\* A pointer event found every tile without an animation in progress, and n
\* updates have run since: every tile whose target the event moved has made n
\* steps towards a target that has not changed.
StepsAfterEvent(n) == last.op # "none" /\ last.from_rest /\ idle = n

\* 2^-7 of a pixel.
Epsilon == FDivInt(FromInt(1), 128)

Near(a, b) == FAbs(FSub(a, b)) <= Epsilon

\* C8, as claimed: ANIMATION_STEPS updates after a displacement was introduced
\* for tiles at rest, every tile that is not dragging is exactly at its target.
C8_ExactAfterNSteps ==
    StepsAfterEvent(ANIMATION_STEPS) =>
        \A i \in 0..(Len(rack.tiles) - 1) :
            ~rack.tiles[i + 1].dragging => OnTarget(rack, i)

\* C8, amended: after ANIMATION_STEPS updates the tile is within 2^-7 pixel of
\* its target, and after one more it is exactly at it, its animation over.
C8_NearAfterNExactAfterNPlus1 ==
    /\ StepsAfterEvent(ANIMATION_STEPS) =>
         \A i \in 0..(Len(rack.tiles) - 1) :
             ~rack.tiles[i + 1].dragging =>
                 /\ Near(rack.tiles[i + 1].x, TargetX(rack, i))
                 /\ Near(rack.tiles[i + 1].y, rack.y)
    /\ StepsAfterEvent(ANIMATION_STEPS + 1) =>
         \A i \in 0..(Len(rack.tiles) - 1) :
             ~rack.tiles[i + 1].dragging =>
                 /\ OnTarget(rack, i)
                 /\ rack.tiles[i + 1].animation_progress = 0
                 /\ rack.tiles[i + 1].x_animation_step = None

\* A tile has made ANIMATION_STEPS steps and is near its target, not at it.
C8_Witness ==
    /\ StepsAfterEvent(ANIMATION_STEPS)
    /\ \E i \in 0..(Len(rack.tiles) - 1) :
          /\ ~rack.tiles[i + 1].dragging
          /\ rack.tiles[i + 1].animation_progress = ANIMATION_STEPS
          /\ ~OnTarget(rack, i)
          /\ Near(rack.tiles[i + 1].x, TargetX(rack, i))

\* C9: for every tile in every reachable state, the offset of the click is
\* Some exactly while the tile is dragging.
C9_OffsetIffDragging ==
    \A i \in 1..Len(rack.tiles) :
        /\ (rack.tiles[i].relative_x_click # None) <=> rack.tiles[i].dragging
        /\ (rack.tiles[i].relative_y_click # None) <=> rack.tiles[i].dragging

\* The dragging flags and click offsets of the tiles, by letter.
DragState(r) ==
    { << r.tiles[i].letter, r.tiles[i].dragging,
         r.tiles[i].relative_x_click, r.tiles[i].relative_y_click >> :
        i \in 1..Len(r.tiles) }

\* C10: a pointer-down while a tile is dragging is rejected: it changes no
\* tile's dragging flag and no tile's click offset.
C10_DownWhileDraggingRejected ==
    [][ (DraggingSlots(rack) # {} /\ Delivered("down"))
            => DragState(rack') = DragState(rack) ]_vars

\* The tiles (1-based) whose rectangle, tile_width x tile_height at the tile's
\* position, contains the point.
TilesAt(r, x, y) == { i \in 1..Len(r.tiles) : TileContains(r.tiles[i], x, y) }

\* C11: with no drag in progress, a pointer-down at a point inside some tile's
\* rectangle begins the drag of a tile whose rectangle contains the point, and
\* a pointer-down at a point inside no tile's rectangle begins no drag; the
\* handler does not panic.
C11_HitTestActualRectangles ==
    DraggingSlots(rack) = {} =>
        \A x \in PointerXs, y \in PointerYs :
            LET after == RackMouseDown(rack, "Left", x, y)
            IN  /\ ~MouseDownPanics(rack, "Left", x)
                /\ IF TilesAt(rack, x, y) = {}
                   THEN after = rack
                   ELSE \E i \in TilesAt(rack, x, y) : after.tiles[i].dragging

\* C12: in every reachable state the draw order holds every tile exactly once
\* and a tile that is dragging is the last one drawn.
C12_DraggingDrawnLast ==
    LET order == DrawOrder(rack)
    IN  /\ Len(order) = Len(rack.tiles)
        /\ \A i \in 1..Len(rack.tiles) :
               Cardinality({ k \in 1..Len(order) : order[k] = i }) = 1
        /\ \A i \in 1..Len(rack.tiles) :
               rack.tiles[i].dragging => order[Len(order)] = i

\* The preview rule in exact arithmetic, in units of 2^-16: the nominal x of
\* slot i, one pitch to the right if new_index <= i <= old_index, one pitch to
\* the left if old_index <= i <= new_index.
PreviewX16(r, i, old_index, new_index) ==
    Fix16(r.x) + i * Pitch * 2^16
        + (IF new_index <= i /\ i <= old_index THEN Pitch * 2^16
           ELSE IF old_index <= i /\ i <= new_index THEN -(Pitch * 2^16)
           ELSE 0)

\* The slot of the one dragging tile, and the slot it would be dropped in.
OldIndex(r) == CHOOSE i \in DraggingSlots(r) : TRUE
NewIndex(r) == CentreColumn(r, r.tiles[OldIndex(r) + 1].x)

\* C13: every update during a drag moves a tile that is not dragging as
\* update moves a tile whose target is (the preview rule's x, rack.y):
\* nominal plus one pitch between new_index and old_index, nominal minus one
\* pitch between old_index and new_index, nominal elsewhere.
C13_LivePreviewRule ==
    [][ (events' = events /\ Cardinality(DraggingSlots(rack)) = 1) =>
            LET old_index == OldIndex(rack)
                new_index == NewIndex(rack)
            IN  \A i \in 0..(Len(rack.tiles) - 1) :
                    ~rack.tiles[i + 1].dragging =>
                        LET x16 == PreviewX16(rack, i, old_index, new_index)
                            target == FromInt(x16 \div 2^16)
                        IN  /\ Fix16(target) = x16
                            /\ rack'.tiles[i + 1]
                                 = UpdateTile(rack.tiles[i + 1], target, rack.y,
                                              animation_steps) ]_vars

\* The tile of slot 3 is dragged over slot 0 and updates have run: the tiles
\* of slots 0, 1 and 2 are on their way one pitch to the right, and the tile
\* of slot 4 stays in its slot.
C13_Witness ==
    /\ rack.size = MaxLen
    /\ DraggingSlots(rack) = { 3 }
    /\ NewIndex(rack) = 0
    /\ idle = Stride
    /\ rack.tiles[1].x_animation_step = Some(FDivInt(FromInt(Pitch), ANIMATION_STEPS))
    /\ rack.tiles[1].x > SlotX(rack.x, 0)
    /\ rack.tiles[5].x = SlotX(rack.x, 4)

\* Where the tile of slot i is after this step: a pointer-up that moved the
\* tile of slot from to slot to shifts the tiles between them, every other
\* step leaves each tile in its slot.
SlotAfterMove(i, from, to) ==
    IF i = from THEN to
    ELSE LET j == IF i > from THEN i - 1 ELSE i
         IN  IF j < to THEN j ELSE j + 1

SlotAfterStep(i) ==
    IF Delivered("up") /\ ~panicked'
    THEN SlotAfterMove(i, last'.old_index, last'.new_index)
    ELSE i

\* The tile has an animation in progress: a step vector is recorded and fewer
\* than animation_steps steps are made.
InProgress(tile) ==
    /\ tile.x_animation_step # None
    /\ tile.y_animation_step # None
    /\ tile.animation_progress < animation_steps

\* C14: the step vector is computed once per animation run.  In every step,
\* pointer events and updates that change its target included, a tile with
\* an animation in progress keeps its step vector, unless the step is the
\* update that finds the tile at its target and resets its animation.
C14_StepVectorOncePerRun ==
    [][ \A i \in 0..(Len(rack.tiles) - 1) :
          InProgress(rack.tiles[i + 1]) =>
              LET before == rack.tiles[i + 1]
                  after == rack'.tiles[SlotAfterStep(i) + 1]
              IN  \/ /\ after.x_animation_step = before.x_animation_step
                     /\ after.y_animation_step = before.y_animation_step
                  \/ /\ events' = events
                     /\ ~before.dragging
                     /\ OnTarget(rack, i)
                     /\ after.x_animation_step = None
                     /\ after.y_animation_step = None
                     /\ after.animation_progress = 0 ]_vars

\* A tile is in mid-animation with a step vector that leads away from its
\* target: the target has changed since the vector was computed, and updates
\* have run since.
C14_Witness ==
    /\ last.op = "motion"
    /\ idle = Stride
    /\ \E i \in 0..(Len(rack.tiles) - 1) :
          /\ ~rack.tiles[i + 1].dragging
          /\ InProgress(rack.tiles[i + 1])
          /\ rack.tiles[i + 1].animation_progress > Stride
          /\ rack.tiles[i + 1].x_animation_step[1] < 0
          /\ TargetX(rack, i) > rack.tiles[i + 1].x

\* The pointer positions tried for a motion: those of both pointers.
MotionXs == PointerXs \cup EdgeXs

\* The recorded offset of the click is the offset of (x, y) from the tile,
\* inside the tile: the pointer went down at (x, y) with the tile where it is.
GrabbedAt(tile, x, y) ==
    /\ tile.dragging
    /\ TileContains(tile, x, y)
    /\ tile.relative_x_click = Some(FSub(x, tile.x))
    /\ tile.relative_y_click = Some(FSub(y, tile.y))

\* What a motion to (x, y) changes: a dragging tile is put at (x, y) minus
\* the offset of its click and keeps everything else, no other tile changes,
\* the order stays, and without a dragging tile nothing changes.
MotionFrame(x, y) ==
    LET after == RackMouseMotion(rack, x, y)
    IN  /\ after.x = rack.x /\ after.y = rack.y /\ after.size = rack.size
        /\ Len(after.tiles) = Len(rack.tiles)
        /\ DraggingSlots(rack) = {} => after = rack
        /\ \A i \in 1..Len(rack.tiles) :
               IF rack.tiles[i].dragging
               THEN after.tiles[i] =
                        [ rack.tiles[i] EXCEPT
                            !.x = FSub(x, rack.tiles[i].relative_x_click[1]),
                            !.y = FSub(y, rack.tiles[i].relative_y_click[1]) ]
               ELSE after.tiles[i] = rack.tiles[i]

\* C15, as claimed: a motion puts the dragging tile at the pointer minus the
\* offset of the click and changes nothing else, and a motion to the point
\* where the pointer went down leaves the tile where it was.
C15_DragToFrame ==
    \A x \in MotionXs, y \in PointerYs :
        /\ MotionFrame(x, y)
        /\ \A i \in 1..Len(rack.tiles) :
               GrabbedAt(rack.tiles[i], x, y) =>
                   RackMouseMotion(rack, x, y).tiles[i] = rack.tiles[i]

\* C15, amended: the motion to the point where the pointer went down leaves
\* the tile where it was if the tile was grabbed at x >= tile_width and
\* y >= tile_height, where the f32 offset of the click is exact.
C15_DragToFrameExactOffset ==
    \A x \in MotionXs, y \in PointerYs :
        /\ MotionFrame(x, y)
        /\ \A i \in 1..Len(rack.tiles) :
               ( /\ GrabbedAt(rack.tiles[i], x, y)
                 /\ rack.tiles[i].x >= FromInt(TILE_WIDTH)
                 /\ rack.tiles[i].y >= FromInt(TILE_HEIGHT) ) =>
                   RackMouseMotion(rack, x, y).tiles[i] = rack.tiles[i]

\* A tile on its way back from the left edge was grabbed in mid-animation, at
\* an x with a fraction, right of tile_width; another tile is not dragging.
C15_Witness ==
    /\ last.op = "down"
    /\ rack.size > 1
    /\ \E i \in 1..Len(rack.tiles) :
          /\ GrabbedAt(rack.tiles[i], FromInt(100), FAdd(RackY, FromInt(10)))
          /\ rack.tiles[i].animation_progress = Stride
          /\ rack.tiles[i].x > FromInt(TILE_WIDTH)
          /\ rack.tiles[i].x < FromInt(100)
          /\ Fix16(rack.tiles[i].x) % 2^16 # 0
    /\ \E i \in 1..Len(rack.tiles) : ~rack.tiles[i].dragging

\* The current target x of the tile of slot i in exact arithmetic, in units
\* of 2^-16: the slot's nominal x without a drag, the preview rule's x with
\* the first dragging tile as the dragged one.
Target16(r, i) ==
    IF DraggingSlots(r) = {}
    THEN Fix16(r.x) + i * Pitch * 2^16
    ELSE PreviewX16(r, i, Min(DraggingSlots(r)),
                    CentreColumn(r, r.tiles[Min(DraggingSlots(r)) + 1].x))

\* C16: with animation_steps = 0, after every update every tile that is not
\* dragging is exactly at its current target, also one update after a pointer
\* event has changed the target, and no tile ever records animation state.
C16_NoAnimationTeleports ==
    /\ NoAnimation(rack)
    /\ idle >= 1 =>
         \A i \in 0..(Len(rack.tiles) - 1) :
             ~rack.tiles[i + 1].dragging =>
                 /\ Fix16(rack.tiles[i + 1].x) = Target16(rack, i)
                 /\ rack.tiles[i + 1].y = rack.y

\* One update after a motion, the tile of slot 0 is one pitch from its slot,
\* where the drag of the tile of slot 3 over slot 0 wants it.
C16_Witness ==
    /\ animation_steps = 0
    /\ idle = 1
    /\ last.op = "motion"
    /\ rack.size = MaxLen
    /\ DraggingSlots(rack) = { 3 }
    /\ rack.tiles[1].x = SlotX(rack.x, 1)

\* The tile of slot i is exactly at its current target with its animation
\* state cleared.
Settled(r, i) ==
    /\ Fix16(r.tiles[i + 1].x) = Target16(r, i)
    /\ r.tiles[i + 1].y = r.y
    /\ r.tiles[i + 1].animation_progress = 0
    /\ r.tiles[i + 1].x_animation_step = None
    /\ r.tiles[i + 1].y_animation_step = None

\* C17: when animation_steps + 1 updates or more have run since the last
\* pointer event, whatever the state that event left (tiles at rest or in
\* mid-animation), every tile that is not dragging is exactly at its current
\* target with its animation state cleared; without a drag that is the
\* nominal position of its slot.
C17_SettledAfterNPlus1 ==
    idle >= animation_steps + 1 =>
        \A i \in 0..(Len(rack.tiles) - 1) :
            ~rack.tiles[i + 1].dragging => Settled(rack, i)

\* animation_steps + 1 updates after a drop that interrupted an animation the
\* rack is at rest in a new order.
C17_Witness ==
    /\ idle = animation_steps + 1
    /\ last.op = "up"
    /\ ~last.from_rest
    /\ DraggingSlots(rack) = {}
    /\ LettersOf(rack.tiles) # letters
    /\ \A i \in 0..(Len(rack.tiles) - 1) : Settled(rack, i)

\* C18: a drop puts every tile but the dropped one, unchanged, in a slot
\* whose nominal x is the target that update gave the tile just before the
\* drop, with the dragged tile where it was dropped; the drop does not
\* panic.
C18_PreviewIsCommit ==
    [][ Delivered("up") =>
            LET dragging_initial_index == GetDraggingIndex(rack)
                new_index == PreviewIndex(rack)
            IN  /\ ~panicked'
                /\ \A i \in 0..(Len(rack.tiles) - 1) \ { dragging_initial_index } :
                      LET target == NewTileX(rack, i, dragging_initial_index,
                                             new_index)
                      IN  \E j \in 0..(Len(rack'.tiles) - 1) :
                              /\ rack'.tiles[j + 1] = rack.tiles[i + 1]
                              /\ target = SlotX(rack'.x, j) ]_vars

\* C19: an update leaves every dragging tile as it is and changes no tile's
\* dragging flag or click offset and not the order of the tiles; the order
\* changes only in a pointer-up; and a tile that is dragging before and after
\* a step is in the same slot before and after it.
C19_UpdateFrame ==
    [][ /\ events' = events =>
            /\ LettersOf(rack'.tiles) = LettersOf(rack.tiles)
            /\ \A i \in 1..Len(rack.tiles) :
                   /\ rack'.tiles[i].dragging = rack.tiles[i].dragging
                   /\ rack'.tiles[i].relative_x_click = rack.tiles[i].relative_x_click
                   /\ rack'.tiles[i].relative_y_click = rack.tiles[i].relative_y_click
                   /\ rack.tiles[i].dragging => rack'.tiles[i] = rack.tiles[i]
        /\ LettersOf(rack'.tiles) # LettersOf(rack.tiles) => Delivered("up")
        /\ \A i \in 0..(Len(rack.tiles) - 1) :
               ( /\ rack.tiles[i + 1].dragging
                 /\ rack'.tiles[SlotAfterStep(i) + 1].dragging ) =>
                   SlotAfterStep(i) = i ]_vars

\* C20: in every reachable state every tile, dragging or not, has made
\* between 0 and animation_steps steps of its animation, and has a step
\* vector, in x and in y, exactly if it has made at least one.
C20_AnimationState ==
    \A i \in 1..Len(rack.tiles) :
        /\ rack.tiles[i].animation_progress \in 0..animation_steps
        /\ (rack.tiles[i].x_animation_step # None)
               <=> (rack.tiles[i].animation_progress > 0)
        /\ (rack.tiles[i].y_animation_step # None)
               <=> (rack.tiles[i].animation_progress > 0)

\* A tile grabbed in mid-animation is dragging with the steps it had made and
\* its step vector, while another tile has made all its steps and waits for
\* the update that ends its animation.
C20_Witness ==
    /\ \E i \in 1..Len(rack.tiles) :
          /\ rack.tiles[i].dragging
          /\ rack.tiles[i].animation_progress = Stride
          /\ rack.tiles[i].x_animation_step # None
    /\ \E i \in 1..Len(rack.tiles) :
          /\ ~rack.tiles[i].dragging
          /\ rack.tiles[i].animation_progress = animation_steps

=============================================================================
